---- MODULE Spec2Model ----
(***************************************************************************)
(* Model of aten/src/ATen/native/mkl/SpectralOps.cpp:                      *)
(*   - _fft_fill_with_conjugate_symmetry_slice / _cpu_ (the Hermitian      *)
(*     mirror fill run by at::parallel_for), specification SpecFill;       *)
(*   - _fft_mkl (the MKL DFTI descriptor set-up and execution),            *)
(*     specification SpecFft.                                              *)
(* Dimensions keep the source's 0-based numbering: every per-dimension     *)
(* array is a function over 0..ndim-1.                                     *)
(***************************************************************************)
EXTENDS Integers, FiniteSets, Sequences, TLC

VARIABLES
    \* ---- arguments of _fft_fill_with_conjugate_symmetry_cpu_
    signal_half_sizes,   \* extents of the iterated index space
    mirror_dims,         \* set of dimensions flagged as mirrored
    in_strides_bytes,    \* byte strides of the source
    out_strides_bytes,   \* byte strides of the destination
    \* ---- the two calls (one chunk, then many chunks) and at::parallel_for
    phase,               \* "init", "single", "single_done", "multi", "multi_done"
    todo,                \* chunks <<begin, end>> parallel_for has not handed out yet
    running,             \* the slices in progress, one per busy thread: their locals
    out_data,            \* destination buffer of the current call: offset -> value
    single_out,          \* destination buffer the one-chunk call left
    wlog,                \* the stores of the current call (history)
    nwrites,             \* number of stores of the current call (history)
    \* ---- arguments of _fft_mkl and the build it runs in
    self,                \* the input tensor: sizes, strides (in scalars)
    args,                \* signal_ndim, complex_input, ..., output_sizes
    mkl_long_is_narrow,  \* sizeof(MKL_LONG) < sizeof(int64_t)
    \* ---- locals of _fft_mkl
    pc,                  \* the statement _fft_mkl is at
    input,               \* the tensor the transform reads (self or a copy)
    need_contiguous,     \* the preflight's local of line 212
    output,              \* the output tensor, not allocated before at::empty
    prec,                \* DFTI precision
    signal_type,         \* DFTI forward domain
    descriptor,          \* the DftiDescriptor local: "empty", "live", "freed"
    \* ---- what the run did (history)
    calls,               \* the DFTI calls made, in order
    created,             \* native descriptors created
    released,            \* native descriptors released
    fill_calls,          \* calls of _fft_fill_with_conjugate_symmetry_
    result               \* "running", "returned" or the error thrown

fillvars == <<signal_half_sizes, mirror_dims, in_strides_bytes, out_strides_bytes,
              phase, todo, running, out_data, single_out, wlog, nwrites>>

fftvars == <<self, args, mkl_long_is_narrow, pc, input, need_contiguous, output,
             prec, signal_type, descriptor, calls, created, released, fill_calls,
             result>>

vars == <<fillvars, fftvars>>

fillargs == <<signal_half_sizes, mirror_dims, in_strides_bytes, out_strides_bytes>>

\* ------------------------------------------------------------------ bounds
MaxDim == 3        \* number of dimensions of the index space
MaxNumel == 6      \* product of the extents (so no extent exceeds it)

\* the threads of the parallel_for pool
Threads == {"t1", "t2"}

\* sizeof(c10::complex<float>), the itemsize the byte strides are divided by
element_size == 8

Min(a, b) == IF a < b THEN a ELSE b

RECURSIVE ProdUpTo(_, _)
\* product of f[0] * ... * f[n-1]
ProdUpTo(f, n) == IF n = 0 THEN 1 ELSE f[n - 1] * ProdUpTo(f, n - 1)

prod_intlist(f) == ProdUpTo(f, Cardinality(DOMAIN f))

ndim == Cardinality(DOMAIN signal_half_sizes)
Dims == 0 .. (ndim - 1)
numel == prod_intlist(signal_half_sizes)

\* ---------------------------------------------------------------- buffers
\* Complex numbers are pairs <<re, im>>.
conj(z) == <<z[1], 0 - z[2]>>

\* The source buffer is read-only; the element stored at offset k is
\* k + (2k+1)i, so distinct offsets hold distinct values with im # 0.
in_data(k) == <<k, 2 * k + 1>>

\* -------------------------------------------- _fft_fill_..._cpu_, set-up
in_strides == [d \in Dims |-> in_strides_bytes[d] \div element_size]
out_strides == [d \in Dims |-> out_strides_bytes[d] \div element_size]
is_mirrored_dim == [d \in Dims |-> d \in mirror_dims]

\* ------------------------------------ _fft_fill_..._slice, local state
\* A slice's locals: iter_index, in_ptr, out_ptr (offsets from the buffer
\* starts), numel_remaining, the inner loop's i and end, and which of the
\* three inner loops it is in (pc).  Two fields are history: pos, the linear
\* index of the element the next store handles, and out_part, which splits
\* out_ptr into what each dimension's pointer updates have added to it.

\* advance_index, lines 69-77: what out_ptr gains when iter_index[i] steps
advance_step(st, mir, i) ==
    IF mir[i]
    THEN IF st.iter_index[i] + 1 = 1
         THEN (signal_half_sizes[i] - 1) * out_strides[i]
         ELSE 0 - out_strides[i]
    ELSE out_strides[i]

advance_rollover_one_stride(st, mir, i) == out_strides[i]

\* advance_index, lines 82-86: what out_ptr loses when iter_index[i] rolls over
advance_rollover(st, mir, i) ==
    IF mir[i]
    THEN out_strides[i]
    ELSE out_strides[i] * st.iter_index[i]

RECURSIVE advance_from(_, _, _)
\* advance_index, the loop of lines 65-88 from dimension i on
advance_from(st, mir, i) ==
    IF i >= ndim THEN st
    ELSE IF st.iter_index[i] + 1 < signal_half_sizes[i]
    THEN [st EXCEPT
            !.iter_index[i] = @ + 1,
            !.in_ptr = @ + in_strides[i],
            !.out_ptr = @ + advance_step(st, mir, i),
            !.out_part[i] = @ + advance_step(st, mir, i)]
    ELSE advance_from(
           [st EXCEPT
              !.in_ptr = @ - in_strides[i] * st.iter_index[i],
              !.out_ptr = @ - advance_rollover(st, mir, i),
              !.out_part[i] = @ - advance_rollover(st, mir, i),
              !.iter_index[i] = 0],
           mir, i + 1)

advance_index(st, mir) == advance_from(st, mir, 1)

\* lines 103-107: what dimension i adds to out_ptr at the start of a slice
start_offset(mir, i, idx) ==
    IF mir[i]
    THEN out_strides[i] * (signal_half_sizes[i] - idx)
    ELSE out_strides[i] * idx

RECURSIVE start_from(_, _, _, _)
\* the loop of lines 97-109
start_from(st, mir, linear_idx, i) ==
    IF ~(i < ndim /\ linear_idx > 0) THEN st
    ELSE LET idx == linear_idx % signal_half_sizes[i]
             st1 == [st EXCEPT !.iter_index[i] = idx]
             st2 == IF idx > 0
                    THEN [st1 EXCEPT
                            !.in_ptr = @ + in_strides[i] * idx,
                            !.out_ptr = @ + start_offset(mir, i, idx),
                            !.out_part[i] = @ + start_offset(mir, i, idx)]
                    ELSE st1
         IN start_from(st2, mir, linear_idx \div signal_half_sizes[i], i + 1)

\* entry of `while (numel_remaining > 0)' of the mirrored branch, line 126
enter_row(st) ==
    IF st.numel_remaining > 0
    THEN [st EXCEPT !.pc = "row", !.i = 0,
                    !.end = Min(signal_half_sizes[0], st.numel_remaining)]
    ELSE [st EXCEPT !.pc = "done"]

\* entry of `while (numel_remaining > 0)' of the plain branch, line 137
enter_plain(st) ==
    IF st.numel_remaining > 0
    THEN [st EXCEPT !.pc = "plain", !.i = st.iter_index[0],
                    !.end = Min(signal_half_sizes[0],
                                st.iter_index[0] + st.numel_remaining)]
    ELSE [st EXCEPT !.pc = "done"]

\* lines 58-60 and 91-117/126/137: the locals when the first store is due
slice_start(range, mir) ==
    LET st0 == [pc |-> "start",
                iter_index |-> [d \in Dims |-> 0],
                in_ptr |-> 0, out_ptr |-> 0,
                out_part |-> [d \in Dims |-> 0],
                numel_remaining |-> 0, i |-> 0, end |-> 0,
                pos |-> range[1]]
        st1 == IF range[1] > 0
               THEN start_from(
                      [st0 EXCEPT !.iter_index[0] = range[1] % signal_half_sizes[0]],
                      mir, range[1] \div signal_half_sizes[0], 1)
               ELSE st0
        st2 == [st1 EXCEPT !.numel_remaining = range[2] - range[1]]
    IN IF mir[0]
       THEN IF st2.iter_index[0] > 0
            THEN [st2 EXCEPT !.pc = "partial", !.i = st2.iter_index[0],
                             !.end = Min(signal_half_sizes[0],
                                         st2.iter_index[0] + st2.numel_remaining)]
            ELSE enter_row(st2)
       ELSE enter_plain(st2)

\* the subscript of out_ptr in the current loop iteration, lines 119, 128,
\* 130 and 140
inner_offset(st) ==
    CASE st.pc = "partial" -> (signal_half_sizes[0] - st.i) * out_strides[0]
      [] st.pc = "row" -> IF st.i = 0 THEN 0
                          ELSE (signal_half_sizes[0] - st.i) * out_strides[0]
      [] st.pc = "plain" -> st.i * out_strides[0]

\* the element the current loop iteration reads (src) and stores to (off)
slice_access(st) ==
    [src |-> IF st.pc = "row" /\ st.i = 0 THEN st.in_ptr
             ELSE st.in_ptr + st.i * in_strides[0],
     off |-> st.out_ptr + inner_offset(st),
     part |-> [st.out_part EXCEPT ![0] = inner_offset(st)]]

\* the locals after the current loop iteration, up to the next store
slice_next(st, mir) ==
    LET s == [st EXCEPT !.i = @ + 1, !.pos = @ + 1]
    IN CASE st.pc = "partial" ->
              IF s.i < s.end THEN s
              ELSE enter_row(advance_index(
                     [s EXCEPT !.numel_remaining = @ - (s.end - s.iter_index[0]),
                               !.iter_index[0] = 0], mir))
         [] st.pc = "row" ->
              IF s.i < s.end THEN s
              ELSE enter_row(advance_index(
                     [s EXCEPT !.numel_remaining = @ - s.end], mir))
         [] st.pc = "plain" ->
              IF s.i # s.end THEN s
              ELSE enter_plain(advance_index(
                     [s EXCEPT !.numel_remaining = @ - (s.end - s.iter_index[0]),
                               !.iter_index[0] = 0], mir))


\* ------------------------------------------------ the component at rest
\* The component a specification does not run stays as constructed.
FillIdle ==
    /\ signal_half_sizes = <<>>
    /\ mirror_dims = {}
    /\ in_strides_bytes = <<>>
    /\ out_strides_bytes = <<>>
    /\ phase = "idle"
    /\ todo = {}
    /\ running = {}
    /\ out_data = <<>>
    /\ single_out = <<>>
    /\ wlog = {}
    /\ nwrites = 0

FftIdle ==
    /\ mkl_long_is_narrow = FALSE
    /\ args = [signal_ndim |-> 0]
    /\ self = [sizes |-> <<>>]
    /\ pc = "idle"
    /\ input = self
    /\ need_contiguous = FALSE
    /\ output = [allocated |-> FALSE]
    /\ prec = "unset"
    /\ signal_type = "unset"
    /\ descriptor = "empty"
    /\ calls = <<>>
    /\ created = 0
    /\ released = 0
    /\ fill_calls = <<>>
    /\ result = "idle"

\* ------------------------------------------------- inputs of the fill
\* Element strides of the layouts the callers hand in.
RECURSIVE contiguous_stride(_, _)
\* dimension 0 fastest: stride[d] = sizes[0] * ... * sizes[d-1]
contiguous_stride(sizes, d) ==
    IF d = 0 THEN 1 ELSE sizes[d - 1] * contiguous_stride(sizes, d - 1)

RECURSIVE reversed_stride(_, _)
\* last dimension fastest: stride[d] = sizes[d+1] * ... * sizes[n-1]
reversed_stride(sizes, d) ==
    IF d = Cardinality(DOMAIN sizes) - 1 THEN 1
    ELSE sizes[d + 1] * reversed_stride(sizes, d + 1)

LayoutStrides(kind, sizes) ==
    LET n == Cardinality(DOMAIN sizes)
    IN [d \in DOMAIN sizes |->
          CASE kind = "contiguous" -> contiguous_stride(sizes, d)
            [] kind = "reversed" -> reversed_stride(sizes, d)
            [] kind = "padded" -> 2 * contiguous_stride(sizes, d) + (IF d = 0 THEN 0 ELSE 1)
            [] kind = "neglast" -> IF d = n - 1 THEN 0 - contiguous_stride(sizes, d)
                                   ELSE contiguous_stride(sizes, d)
            [] kind = "overlap" -> 1]

\* <<source layout, destination layout>>
LayoutPairs == {<<"contiguous", "contiguous">>, <<"padded", "neglast">>,
                <<"reversed", "overlap">>}

Shapes == UNION {[0 .. (n - 1) -> 1 .. MaxNumel] : n \in 1 .. MaxDim}

\* The partitions of [0, n) parallel_for may produce around an arbitrary
\* chunk [a, b): what comes before it, the chunk, and what comes after it.
Chunks(n, a, b) == {r \in {<<0, a>>, <<a, b>>, <<b, n>>} : r[1] < r[2]}

Partitions(n) ==
    {Chunks(n, r[1], r[2]) : r \in {q \in (0 .. (n - 1)) \X (1 .. n) : q[1] < q[2]}}

\* The comparison run of the slice: the same range with the lowest extent-1
\* dimension taken out of mirror_dims.
unflagged_dims ==
    LET ones == {d \in mirror_dims : signal_half_sizes[d] = 1}
    IN IF ones = {} THEN mirror_dims
       ELSE mirror_dims \ {CHOOSE d \in ones : \A e \in ones : d <= e}
is_unflagged_mirrored == [d \in Dims |-> d \in unflagged_dims]

InitFill ==
    /\ signal_half_sizes \in {s \in Shapes : prod_intlist(s) <= MaxNumel}
    /\ mirror_dims \in SUBSET (DOMAIN signal_half_sizes)
    /\ \E k \in LayoutPairs :
         /\ in_strides_bytes = [d \in DOMAIN signal_half_sizes |->
                                  element_size * LayoutStrides(k[1], signal_half_sizes)[d]]
         /\ out_strides_bytes = [d \in DOMAIN signal_half_sizes |->
                                   element_size * LayoutStrides(k[2], signal_half_sizes)[d]]
    /\ phase = "init"
    /\ todo = {}
    /\ running = {}
    /\ out_data = <<>>
    /\ single_out = <<>>
    /\ wlog = {}
    /\ nwrites = 0
    /\ FftIdle

\* ------------------------------------------------------------ the fill
\* _fft_fill_with_conjugate_symmetry_cpu_ with a grain size that keeps
\* [0, numel) in one chunk.
FillSingle ==
    /\ phase = "init"
    /\ phase' = "single"
    /\ todo' = {<<0, numel>>}
    /\ UNCHANGED <<fftvars, fillargs,
                   running, out_data, single_out, wlog, nwrites>>

\* The same call on the same input and a fresh destination, parallel_for
\* splitting [0, numel) into chunks.
FillParallel ==
    /\ phase = "single_done"
    /\ phase' = "multi"
    /\ todo' \in Partitions(numel)
    /\ single_out' = out_data
    /\ out_data' = <<>>
    /\ wlog' = {}
    /\ nwrites' = 0
    /\ UNCHANGED <<fftvars, fillargs, running>>

\* at::parallel_for hands a chunk to a free thread, which runs the slice up
\* to its first store.
StartSlice ==
    /\ phase \in {"single", "multi"}
    /\ Cardinality(running) < Cardinality(Threads)
    /\ \E r \in todo :
         /\ todo' = todo \ {r}
         /\ running' = running \cup {[range |-> r,
                                      a |-> slice_start(r, is_mirrored_dim),
                                      nf |-> slice_start(r, is_unflagged_mirrored)]}
    /\ UNCHANGED <<fftvars, fillargs,
                   phase, out_data, single_out, wlog, nwrites>>

\* One iteration of the inner loop of slice s: out_ptr[..] = conj(in_ptr[..]),
\* then the loop bookkeeping up to the next store or the slice's return.
Store(s) ==
    LET acc == slice_access(s.a)
        nfacc == slice_access(s.nf)
        val == conj(in_data(acc.src))
        nxt == slice_next(s.a, is_mirrored_dim)
        nfnxt == slice_next(s.nf, is_unflagged_mirrored)
    IN /\ out_data' = (acc.off :> val) @@ out_data
       /\ wlog' = wlog \cup {[rb |-> s.range[1], lin |-> s.a.pos,
                              src |-> acc.src, off |-> acc.off, val |-> val,
                              part |-> acc.part,
                              nf_off |-> nfacc.off,
                              nf_val |-> conj(in_data(nfacc.src))]}
       /\ nwrites' = nwrites + 1
       /\ running' = IF nxt.pc = "done" THEN running \ {s}
                     ELSE (running \ {s}) \cup {[s EXCEPT !.a = nxt, !.nf = nfnxt]}
       /\ UNCHANGED <<fftvars, fillargs, phase, todo, single_out>>

\* parallel_for returns when every chunk has run.
Join ==
    /\ phase \in {"single", "multi"}
    /\ todo = {}
    /\ running = {}
    /\ phase' = IF phase = "single" THEN "single_done" ELSE "multi_done"
    /\ UNCHANGED <<fftvars, fillargs,
                   todo, running, out_data, single_out, wlog, nwrites>>

NextFill ==
    \/ FillSingle
    \/ FillParallel
    \/ StartSlice
    \/ \E s \in running : Store(s)
    \/ Join

\* ================================================================ _fft_mkl
MaxSignalNdim == 2   \* number of transformed dimensions
MaxBatch == 2        \* extent of the batch dimension
MKL_LONG_MAX == 3    \* largest MKL_LONG of a narrow build, scaled down

TensorDims == 0 .. args.signal_ndim

\* A tensor is [sizes, strides, complex, last_stride]: sizes and strides of
\* dimensions 0..signal_ndim in scalars; complex says a trailing real/imag
\* dimension of size 2 follows, whose stride is last_stride.
RECURSIVE row_major_stride(_, _, _, _)
\* stride of dimension i of a contiguous tensor whose last listed dimension
\* n has stride inner
row_major_stride(sizes, n, inner, i) ==
    IF i = n THEN inner ELSE sizes[i + 1] * row_major_stride(sizes, n, inner, i + 1)

\* Tensor::contiguous()
contiguous(t) ==
    [t EXCEPT !.strides = [i \in DOMAIN t.sizes |->
                             row_major_stride(t.sizes, Cardinality(DOMAIN t.sizes) - 1,
                                              IF t.complex THEN 2 ELSE 1, i)],
              !.last_stride = 1]

\* input.stride(-1)
stride_last(t) ==
    IF t.complex THEN t.last_stride ELSE t.strides[Cardinality(DOMAIN t.sizes) - 1]

\* lines 197-205: whether the complex input has to be copied
complex_needs_contiguous(t) ==
    \/ stride_last(t) # 1
    \/ \E i \in TensorDims : t.strides[i] % 2 # 0

within_limit_strict(x) == x < MKL_LONG_MAX

\* `x <= MKL_LONG_MAX' of lines 220 and 230
within_limit(x) == x <= MKL_LONG_MAX

RECURSIVE preflight_from(_, _, _, _, _)
\* the loop of lines 215-234 from dimension i down, over tensor t
preflight_from(t, i, nc, inumel, onumel) ==
    IF i < 0 THEN [ok |-> TRUE, need_contiguous |-> nc]
    ELSE LET isize == t.sizes[i]
             osize == args.output_sizes[i]
             istride == IF args.complex_input THEN t.strides[i] \div 2
                        ELSE t.strides[i]
             ostride == onumel
             nc1 == nc \/ (~ nc /\ istride > MKL_LONG_MAX)
         IN IF ~ (within_limit(isize) /\ within_limit(osize) /\ within_limit(ostride))
            THEN [ok |-> FALSE, need_contiguous |-> nc]
            ELSE IF ~ (~ nc1 \/ within_limit(inumel))
            THEN [ok |-> FALSE, need_contiguous |-> nc1]
            ELSE preflight_from(t, i - 1, nc1, inumel * isize, onumel * osize)

preflight(t) == preflight_from(t, args.signal_ndim, FALSE, 1, 1)

\* conversion of an int64_t to MKL_LONG: the value modulo 2^w on a narrow
\* build (w the width of MKL_LONG), the value itself otherwise
to_mkl_long(x) ==
    IF mkl_long_is_narrow
    THEN ((x + MKL_LONG_MAX + 1) % (2 * (MKL_LONG_MAX + 1))) - (MKL_LONG_MAX + 1)
    ELSE x

\* lines 269 and 277: a stride in elements of the descriptor's domain
halved_if(complex, stride) == IF complex THEN stride \div 2 ELSE stride

needs_fill_ignoring_onesided == ~ args.complex_input /\ args.complex_output

\* line 310
needs_fill == ~ args.complex_input /\ args.complex_output /\ ~ args.onesided

\* lines 311-312: std::iota(signal_dims.begin(), signal_dims.end(), 1)
signal_dims == [k \in 1 .. args.signal_ndim |-> k]

scale_key_swapped == IF args.inverse THEN "DFTI_FORWARD_SCALE" ELSE "DFTI_BACKWARD_SCALE"

\* line 298
scale_key == IF args.inverse THEN "DFTI_BACKWARD_SCALE" ELSE "DFTI_FORWARD_SCALE"

\* at::prod_intlist(checked_signal_sizes), line 290
signal_numel ==
    ProdUpTo([k \in 0 .. (args.signal_ndim - 1) |-> args.checked_signal_sizes[k + 1]],
             args.signal_ndim)

\* lines 291-299: the factor, as the expression that computes it
scale_value ==
    [factor |-> IF args.normalization = "by_root_n" THEN "1/sqrt" ELSE "1/",
     of |-> signal_numel,
     as |-> IF prec = "DFTI_DOUBLE" THEN "double" ELSE "float"]

next_step_without_commit(step) ==
    CASE step = "create" -> "placement"
      [] step = "placement" -> "transforms"
      [] step = "transforms" -> "idist"
      [] step = "idist" -> "odist"
      [] step = "odist" -> "istrides"
      [] step = "istrides" -> "ostrides"
      [] step = "ostrides" ->
           IF ~ args.complex_input \/ ~ args.complex_output THEN "cce"
           ELSE IF args.normalization # "none" THEN "scale" ELSE "compute"
      [] step = "cce" -> IF args.normalization # "none" THEN "scale" ELSE "compute"
      [] step = "scale" -> "compute"
      [] step = "commit" -> "compute"
      [] step = "compute" -> "post"

\* the statement after a DFTI call that succeeded, lines 260-308
next_step(step) ==
    CASE step = "create" -> "placement"
      [] step = "placement" -> "transforms"
      [] step = "transforms" -> "idist"
      [] step = "idist" -> "odist"
      [] step = "odist" -> "istrides"
      [] step = "istrides" -> "ostrides"
      [] step = "ostrides" ->
           IF ~ args.complex_input \/ ~ args.complex_output THEN "cce"
           ELSE IF args.normalization # "none" THEN "scale" ELSE "commit"
      [] step = "cce" -> IF args.normalization # "none" THEN "scale" ELSE "commit"
      [] step = "scale" -> "commit"
      [] step = "commit" -> "compute"
      [] step = "compute" -> "post"

\* ~DftiDescriptor at scope exit or stack unwinding: a live native descriptor
\* is released, an empty wrapper releases nothing
descriptor_destroyed ==
    /\ descriptor' = IF descriptor = "live" THEN "freed" ELSE descriptor
    /\ released' = IF descriptor = "live" THEN released + 1 ELSE released

\* TORCH_CHECK / AT_ERROR / MKL_DFTI_CHECK throwing: the run ends with the
\* error, the locals are destroyed
throw(error) ==
    /\ pc' = "failed"
    /\ result' = error
    /\ descriptor_destroyed

\* MKL_DFTI_CHECK(<DFTI call>): the call is made; the engine reports success
\* or an error status, and an error status is thrown
dfti_call(step, key, value) ==
    /\ pc = step
    /\ \E ok \in BOOLEAN :
         /\ calls' = Append(calls, [key |-> key, value |-> value, ok |-> ok])
         /\ IF ok
            THEN /\ pc' = next_step(step)
                 /\ UNCHANGED <<result, released>>
                 /\ IF step = "create"
                    THEN descriptor' = "live" /\ created' = created + 1
                    ELSE UNCHANGED <<descriptor, created>>
            ELSE throw("EngineError") /\ UNCHANGED created

\* ------------------------------------------------- inputs of _fft_mkl
NormModes == {"none", "by_root_n", "by_n"}
ScalarTypes == {"Float", "Double", "Half"}

\* <<complex_input, complex_output, inverse>>: real-to-complex forward,
\* complex-to-real inverse, complex-to-complex either way
TransformKinds == {<<FALSE, TRUE, FALSE>>, <<TRUE, FALSE, TRUE>>,
                   <<TRUE, TRUE, FALSE>>, <<TRUE, TRUE, TRUE>>}

SelfLayouts == {"contiguous", "spread", "misaligned", "odd"}

\* sizes of the onesided side: the last transformed dimension is n/2 + 1
halved_last(sizes, n, halve) ==
    [i \in DOMAIN sizes |-> IF halve /\ i = n THEN sizes[i] \div 2 + 1 ELSE sizes[i]]

SelfTensor(sizes, complex, layout) ==
    LET n == Cardinality(DOMAIN sizes) - 1
        base == [i \in DOMAIN sizes |->
                   row_major_stride(sizes, n, IF complex THEN 2 ELSE 1, i)]
    IN [sizes |-> sizes,
        complex |-> complex,
        strides |-> [i \in DOMAIN sizes |->
                       CASE layout = "contiguous" -> base[i]
                         [] layout = "spread" -> base[i] * (MKL_LONG_MAX + 1)
                         [] layout = "misaligned" -> base[i] * 3
                         [] layout = "odd" -> base[i] + 1],
        last_stride |-> IF layout = "misaligned" THEN 3 ELSE 1]

NoOutput == [allocated |-> FALSE]

InitFftLocals ==
    /\ pc = "start"
    /\ input = self
    /\ need_contiguous = FALSE
    /\ output = NoOutput
    /\ prec = "unset"
    /\ signal_type = "unset"
    /\ descriptor = "empty"
    /\ calls = <<>>
    /\ created = 0
    /\ released = 0
    /\ fill_calls = <<>>
    /\ result = "running"

InitFft ==
    /\ mkl_long_is_narrow \in BOOLEAN
    /\ \E n \in 1 .. MaxSignalNdim, kind \in TransformKinds, onesided \in BOOLEAN,
          norm \in NormModes, type \in ScalarTypes, batch \in 1 .. MaxBatch,
          layout \in SelfLayouts :
         \E signal \in [1 .. n -> 1 .. (MKL_LONG_MAX + 1)] :
            LET full == [i \in 0 .. n |-> IF i = 0 THEN batch ELSE signal[i]]
            IN /\ args = [signal_ndim |-> n,
                          complex_input |-> kind[1],
                          complex_output |-> kind[2],
                          inverse |-> kind[3],
                          checked_signal_sizes |-> signal,
                          normalization |-> norm,
                          onesided |-> onesided,
                          scalar_type |-> type,
                          output_sizes |->
                             halved_last(full, n, ~ kind[1] /\ kind[2] /\ onesided)]
               /\ self = SelfTensor(halved_last(full, n, kind[1] /\ ~ kind[2] /\ onesided),
                                    kind[1], layout)
    /\ InitFftLocals
    /\ FillIdle

\* ------------------------------------------------- the steps of _fft_mkl
fftargs == <<fillvars, self, args, mkl_long_is_narrow>>

\* lines 194-205
AlignComplexInput ==
    /\ pc = "start"
    /\ input' = IF args.complex_input /\ complex_needs_contiguous(self)
                THEN contiguous(self) ELSE self
    /\ pc' = "preflight"
    /\ UNCHANGED <<fftargs, need_contiguous, output, prec, signal_type, descriptor,
                   calls, created, released, fill_calls, result>>

\* lines 211-235
Preflight ==
    /\ pc = "preflight"
    /\ IF mkl_long_is_narrow
       THEN /\ need_contiguous' = preflight(input).need_contiguous
            /\ IF preflight(input).ok
               THEN pc' = "alloc" /\ UNCHANGED <<result, descriptor, released>>
               ELSE throw("SizeExceeded")
       ELSE /\ pc' = "alloc"
            /\ UNCHANGED <<need_contiguous, result, descriptor, released>>
    /\ UNCHANGED <<fftargs, input, output, prec, signal_type, calls, created,
                   fill_calls>>

\* line 236: at::empty(output_sizes, input.options())
AllocateOutput ==
    /\ pc = "alloc"
    /\ output' = [allocated |-> TRUE,
                  content |-> "uninitialized",
                  strides |-> [i \in TensorDims |->
                                 row_major_stride(args.output_sizes, args.signal_ndim,
                                                  IF args.complex_output THEN 2 ELSE 1, i)]]
    /\ pc' = "precision"
    /\ UNCHANGED <<fftargs, input, need_contiguous, prec, signal_type, descriptor,
                   calls, created, released, fill_calls, result>>

\* lines 238-256
SelectPrecision ==
    /\ pc = "precision"
    /\ IF args.scalar_type \in {"Float", "Double"}
       THEN /\ prec' = IF args.scalar_type = "Float" THEN "DFTI_SINGLE" ELSE "DFTI_DOUBLE"
            /\ signal_type' =
                 IF ~ args.inverse
                 THEN (IF args.complex_input THEN "DFTI_COMPLEX" ELSE "DFTI_REAL")
                 ELSE (IF args.complex_output THEN "DFTI_COMPLEX" ELSE "DFTI_REAL")
            /\ pc' = "create"
            /\ UNCHANGED <<result, descriptor, released>>
       ELSE /\ throw("UnsupportedType")
            /\ UNCHANGED <<prec, signal_type>>
    /\ UNCHANGED <<fftargs, input, need_contiguous, output, calls, created, fill_calls>>

fftframe == <<fftargs, input, need_contiguous, output, prec, signal_type, fill_calls>>

\* lines 258-260: descriptor.init(prec, signal_type, signal_ndim, sizes)
CreateDescriptor ==
    /\ dfti_call("create", "DftiCreateDescriptor",
                 [prec |-> prec, signal_type |-> signal_type,
                  sizes |-> [k \in 1 .. args.signal_ndim |->
                               to_mkl_long(args.checked_signal_sizes[k])]])
    /\ UNCHANGED fftframe

\* line 262
SetPlacement ==
    /\ dfti_call("placement", "DFTI_PLACEMENT", "DFTI_NOT_INPLACE")
    /\ UNCHANGED fftframe

\* line 264
SetNumberOfTransforms ==
    /\ dfti_call("transforms", "DFTI_NUMBER_OF_TRANSFORMS", self.sizes[0])
    /\ UNCHANGED fftframe

\* lines 266, 269 and 271
SetInputDistance ==
    /\ dfti_call("idist", "DFTI_INPUT_DISTANCE",
                 to_mkl_long(halved_if(args.complex_input, input.strides[0])))
    /\ UNCHANGED fftframe

\* lines 267, 270 and 272
SetOutputDistance ==
    /\ dfti_call("odist", "DFTI_OUTPUT_DISTANCE",
                 to_mkl_long(halved_if(args.complex_output, output.strides[0])))
    /\ UNCHANGED fftframe

\* lines 275-280
SetInputStrides ==
    /\ dfti_call("istrides", "DFTI_INPUT_STRIDES",
                 [i \in TensorDims |->
                    IF i = 0 THEN 0
                    ELSE to_mkl_long(halved_if(args.complex_input, input.strides[i]))])
    /\ UNCHANGED fftframe

\* lines 275-281
SetOutputStrides ==
    /\ dfti_call("ostrides", "DFTI_OUTPUT_STRIDES",
                 [i \in TensorDims |->
                    IF i = 0 THEN 0
                    ELSE to_mkl_long(halved_if(args.complex_output, output.strides[i]))])
    /\ UNCHANGED fftframe

\* lines 284-286
SetConjugateEvenStorage ==
    /\ dfti_call("cce", "DFTI_CONJUGATE_EVEN_STORAGE", "DFTI_COMPLEX_COMPLEX")
    /\ UNCHANGED fftframe

\* lines 288-300
SetScale ==
    /\ dfti_call("scale", scale_key, scale_value)
    /\ UNCHANGED fftframe

\* line 302
Commit ==
    /\ dfti_call("commit", "DftiCommitDescriptor", "descriptor")
    /\ UNCHANGED fftframe

\* lines 304-308
Compute ==
    /\ dfti_call("compute",
                 IF ~ args.inverse THEN "DftiComputeForward" ELSE "DftiComputeBackward",
                 "input, output")
    /\ output' = IF pc' = "post" THEN [output EXCEPT !.content = "transformed"]
                 ELSE output
    /\ UNCHANGED <<fftargs, input, need_contiguous, prec, signal_type, fill_calls>>

\* lines 310-315
FillConjugateSymmetry ==
    /\ pc = "post"
    /\ IF needs_fill
       THEN /\ fill_calls' = Append(fill_calls, [self |-> "view_as_complex(output)",
                                                 dim |-> signal_dims])
            /\ output' = [output EXCEPT !.content = "filled"]
       ELSE UNCHANGED <<fill_calls, output>>
    /\ pc' = "return"
    /\ UNCHANGED <<fftargs, input, need_contiguous, prec, signal_type, descriptor,
                   calls, created, released, result>>

\* line 316: return output; the locals go out of scope
Return ==
    /\ pc = "return"
    /\ pc' = "done"
    /\ result' = "returned"
    /\ descriptor_destroyed
    /\ UNCHANGED <<fftargs, input, need_contiguous, output, prec, signal_type,
                   calls, created, fill_calls>>

NextFft ==
    \/ AlignComplexInput
    \/ Preflight
    \/ AllocateOutput
    \/ SelectPrecision
    \/ CreateDescriptor
    \/ SetPlacement
    \/ SetNumberOfTransforms
    \/ SetInputDistance
    \/ SetOutputDistance
    \/ SetInputStrides
    \/ SetOutputStrides
    \/ SetConjugateEvenStorage
    \/ SetScale
    \/ Commit
    \/ Compute
    \/ FillConjugateSymmetry
    \/ Return

\* --------------------------------------------------------- specifications
SpecFill == InitFill /\ [][NextFill]_vars

SpecFft == InitFft /\ [][NextFft]_vars

\* ------------------------------------------------ properties of the fill
RECURSIVE SumOver(_, _)
\* f[0] + ... + f[n-1]
SumOver(f, n) == IF n = 0 THEN 0 ELSE f[n - 1] + SumOver(f, n - 1)

\* the coordinate with linear index lin, dimension 0 fastest
Coord(lin) ==
    [d \in Dims |-> (lin \div ProdUpTo(signal_half_sizes, d)) % signal_half_sizes[d]]

\* r_d(i): i reflected along d when d is in flags, 0 staying 0
Reflect(flags, d, i) ==
    IF d \in flags /\ i > 0 THEN signal_half_sizes[d] - i ELSE i

SrcOffset(lin) == SumOver([d \in Dims |-> Coord(lin)[d] * in_strides[d]], ndim)

DstOffset(flags, lin) ==
    SumOver([d \in Dims |-> Reflect(flags, d, Coord(lin)[d]) * out_strides[d]], ndim)

Conjugate(z) == <<z[1], 0 - z[2]>>

CallDone == phase \in {"single_done", "multi_done"}

\* an extent-1 dimension of index >= 1 is flagged and a later dimension is longer
UnitMirroredOuter ==
    \E d \in mirror_dims :
       d >= 1 /\ signal_half_sizes[d] = 1
       /\ \E e \in Dims : e > d /\ signal_half_sizes[e] > 1

\* C1: every coordinate of the index space gets exactly one store, at the
\* offset of its reflected coordinate, of the conjugate of the source element
\* at the coordinate; nothing else is stored.
C1_FillContract ==
    /\ \A e \in wlog :
          /\ e.lin \in 0 .. (numel - 1)
          /\ e.src = SrcOffset(e.lin)
          /\ e.off = DstOffset(mirror_dims, e.lin)
          /\ e.val = Conjugate(in_data(SrcOffset(e.lin)))
    /\ Cardinality(wlog) = nwrites
    /\ CallDone => /\ nwrites = numel
                   /\ {e.lin : e \in wlog} = 0 .. (numel - 1)

\* C1 where no extent-1 outer dimension is flagged: the contract holds.
FillContractWithoutUnitMirror == UnitMirroredOuter \/ C1_FillContract

\* the destination strides send distinct coordinates to distinct offsets
StridesInjective ==
    \A k, l \in 0 .. (numel - 1) : k # l => DstOffset({}, k) # DstOffset({}, l)

\* the locals of the one-chunk sweep over [0, numel) when element k is due
RECURSIVE Sweep(_)
Sweep(k) ==
    IF k = 0 THEN slice_start(<<0, numel>>, is_mirrored_dim)
    ELSE slice_next(Sweep(k - 1), is_mirrored_dim)

\* C2: the many-chunk call leaves the destination the one-chunk call left
\* (stated for destination strides that keep distinct coordinates apart, where
\* the order of the stores cannot matter), and a slice starts at the element
\* and offsets the sweep from 0 has there.
C2_PartitionIndependence ==
    /\ (phase = "multi_done" /\ StridesInjective) => out_data = single_out
    /\ \A s \in running :
          s.a.pos = s.range[1] =>
             /\ slice_access(s.a).src = slice_access(Sweep(s.range[1])).src
             /\ slice_access(s.a).off = slice_access(Sweep(s.range[1])).off

PartitionIndependenceWithoutUnitMirror ==
    UnitMirroredOuter \/ C2_PartitionIndependence

\* C3: with injective destination strides no destination element is stored
\* to twice, by the same or by different slices.
C3_NoOverlappingStores ==
    StridesInjective =>
       /\ \A e, f \in wlog : e.lin # f.lin => e.off # f.off
       /\ Cardinality({e.off : e \in wlog}) = nwrites

NoOverlappingStoresWithoutUnitMirror ==
    UnitMirroredOuter \/ C3_NoOverlappingStores

C10_UnitMirrorIsNoOp ==
    \A e \in wlog : e.off = e.nf_off /\ e.val = e.nf_val


\* --------------------------------------------- properties of _fft_mkl
RECURSIVE SeqProduct(_)
SeqProduct(q) == IF q = <<>> THEN 1 ELSE Head(q) * SeqProduct(Tail(q))

\* the tensor the preflight reads: self, or its copy made for alignment
PreflightTensor ==
    IF args.complex_input /\ complex_needs_contiguous(self) THEN contiguous(self)
    ELSE self

\* input stride of dimension i in elements of the descriptor's domain
IStride(i) ==
    IF args.complex_input THEN PreflightTensor.strides[i] \div 2
    ELSE PreflightTensor.strides[i]

\* number of elements of dimensions i+1..signal_ndim: the stride of
\* dimension i in a contiguous tensor of these sizes
ElementsAfter(sizes, i) ==
    SeqProduct([k \in 1 .. (args.signal_ndim - i) |-> sizes[i + k]])

OStride(i) == ElementsAfter(args.output_sizes, i)

PastPreflight == pc \notin {"start", "preflight"}

ExtentOrOutputStrideExceeds ==
    \E i \in TensorDims :
       \/ self.sizes[i] > MKL_LONG_MAX
       \/ args.output_sizes[i] > MKL_LONG_MAX
       \/ OStride(i) > MKL_LONG_MAX

AllWithinLimit ==
    \A i \in TensorDims :
       /\ self.sizes[i] <= MKL_LONG_MAX
       /\ args.output_sizes[i] <= MKL_LONG_MAX
       /\ IStride(i) <= MKL_LONG_MAX
       /\ OStride(i) <= MKL_LONG_MAX

\* C5: on a narrow build the request fails with SizeExceeded whenever an
\* input extent, output extent or output stride exceeds MKL_LONG_MAX, the
\* preflight passes whenever every extent and stride is within it, and the
\* failure comes before the output is allocated and before any engine call.
C5_PreflightBoundary ==
    mkl_long_is_narrow =>
       /\ (PastPreflight /\ ExtentOrOutputStrideExceeds) => result = "SizeExceeded"
       /\ (PastPreflight /\ AllWithinLimit) => result # "SizeExceeded"
       /\ result = "SizeExceeded" =>
             /\ ~ output.allocated
             /\ calls = <<>>
             /\ created = 0

\* a request whose input extents fit and whose output extent is
\* MKL_LONG_MAX + 1 has been rejected
C5_Witness ==
    /\ mkl_long_is_narrow
    /\ result = "SizeExceeded"
    /\ \A i \in TensorDims : self.sizes[i] <= MKL_LONG_MAX
    /\ \E i \in TensorDims : args.output_sizes[i] = MKL_LONG_MAX + 1

\* a request with an extent of exactly MKL_LONG_MAX has passed the preflight
PreflightAcceptsLimit ==
    /\ mkl_long_is_narrow
    /\ pc = "alloc"
    /\ \E i \in TensorDims : self.sizes[i] = MKL_LONG_MAX

\* some input stride exceeds the limit, and from the innermost such
\* dimension outwards the contiguous element count stays within it
Rescuable ==
    /\ ~ ExtentOrOutputStrideExceeds
    /\ \E i \in TensorDims :
          /\ IStride(i) > MKL_LONG_MAX
          /\ \A j \in TensorDims : j > i => IStride(j) <= MKL_LONG_MAX
          /\ \A j \in TensorDims : j <= i => ElementsAfter(self.sizes, j) <= MKL_LONG_MAX

\* C6: a rescuable request passes the preflight, and the input distance and
\* input strides handed to the engine are those of the contiguous copy, all
\* within MKL_LONG_MAX.
C6_ContiguousCopyRescue ==
    (mkl_long_is_narrow /\ Rescuable) =>
       /\ PastPreflight => result # "SizeExceeded"
       /\ \A k \in 1 .. Len(calls) :
             /\ calls[k].key = "DFTI_INPUT_DISTANCE" =>
                   /\ calls[k].value = ElementsAfter(self.sizes, 0)
                   /\ calls[k].value <= MKL_LONG_MAX
             /\ calls[k].key = "DFTI_INPUT_STRIDES" =>
                   \A i \in 1 .. args.signal_ndim :
                      /\ calls[k].value[i] = ElementsAfter(self.sizes, i)
                      /\ calls[k].value[i] <= MKL_LONG_MAX

\* the first half of C6 alone: a rescuable request passes the preflight
RescuablePassesPreflight ==
    (mkl_long_is_narrow /\ Rescuable /\ PastPreflight) => result # "SizeExceeded"

ScaleKeys == {"DFTI_FORWARD_SCALE", "DFTI_BACKWARD_SCALE"}
ComputeKeys == {"DftiComputeForward", "DftiComputeBackward"}

\* the configuration values the request needs before the commit
RequiredKeys ==
    {"DFTI_PLACEMENT", "DFTI_NUMBER_OF_TRANSFORMS", "DFTI_INPUT_DISTANCE",
     "DFTI_OUTPUT_DISTANCE", "DFTI_INPUT_STRIDES", "DFTI_OUTPUT_STRIDES"}
    \cup (IF ~ args.complex_input \/ ~ args.complex_output
          THEN {"DFTI_CONJUGATE_EVEN_STORAGE"} ELSE {})
    \cup (IF args.normalization # "none"
          THEN {IF args.inverse THEN "DFTI_BACKWARD_SCALE" ELSE "DFTI_FORWARD_SCALE"}
          ELSE {})

Terminated == pc \in {"done", "failed"}

\* the order of the engine calls and what follows a failing one
EngineCallOrder ==
    /\ \A k \in 1 .. Len(calls) :
          /\ calls[k].key \in ComputeKeys =>
                \E j \in 1 .. (k - 1) :
                   calls[j].key = "DftiCommitDescriptor" /\ calls[j].ok
          /\ calls[k].key = "DftiCommitDescriptor" =>
                \A r \in RequiredKeys :
                   \E j \in 1 .. (k - 1) : calls[j].key = r /\ calls[j].ok
          /\ calls[k].key # "DftiCreateDescriptor" =>
                calls[1].key = "DftiCreateDescriptor" /\ calls[1].ok
          /\ ~ calls[k].ok => k = Len(calls)
    /\ (\E k \in 1 .. Len(calls) : ~ calls[k].ok) => result = "EngineError"

\* every created descriptor is released exactly once by the end of the run
ReleasedOnExit ==
    /\ released <= created
    /\ Terminated => released = created
    /\ descriptor = "live" <=> (created = 1 /\ released = 0)

\* C7 as stated: every run creates exactly one descriptor and releases it
\* exactly once; the engine calls are ordered; a failing call ends the run.
C7_DescriptorLifecycle ==
    /\ Terminated => (created = 1 /\ released = 1)
    /\ ReleasedOnExit
    /\ EngineCallOrder

\* C7 amended: a run creates at most one descriptor - exactly one once the
\* creation call has succeeded, none when the run fails before that - and
\* releases each created descriptor exactly once on every exit path; the
\* engine calls are ordered; a failing call ends the run.
C7_DescriptorLifecycleAmended ==
    /\ created <= 1
    /\ created = Cardinality({k \in 1 .. Len(calls) :
                                calls[k].key = "DftiCreateDescriptor" /\ calls[k].ok})
    /\ result = "returned" => (created = 1 /\ released = 1)
    /\ result \in {"SizeExceeded", "UnsupportedType"} => created = 0
    /\ ReleasedOnExit
    /\ EngineCallOrder

\* a configuration call failed after partial set-up and the descriptor is
\* released
C7_Witness ==
    /\ result = "EngineError"
    /\ Len(calls) >= 5
    /\ created = 1
    /\ released = 1

FillWanted == ~ args.complex_input /\ args.complex_output /\ ~ args.onesided

\* C8: the fill is called at most once, only after a successful execution,
\* only for a real-to-complex transform with onesided false, on the output
\* viewed as complex over dimensions 1..signal_ndim; a run that reaches its
\* return has called it exactly when those conditions hold.
C8_FillTrigger ==
    /\ Len(fill_calls) <= 1
    /\ fill_calls # <<>> =>
          /\ FillWanted
          /\ \E k \in 1 .. Len(calls) : calls[k].key \in ComputeKeys /\ calls[k].ok
          /\ fill_calls[1].self = "view_as_complex(output)"
          /\ Len(fill_calls[1].dim) = args.signal_ndim
          /\ {fill_calls[1].dim[k] : k \in 1 .. Len(fill_calls[1].dim)}
                = 1 .. args.signal_ndim
    /\ pc \in {"return", "done"} =>
          /\ (Len(fill_calls) = 1) <=> FillWanted
          /\ output.content = IF FillWanted THEN "filled" ELSE "transformed"

\* a two-dimensional real-to-complex transform returned its filled output
C8_Witness ==
    /\ result = "returned"
    /\ Len(fill_calls) = 1
    /\ args.signal_ndim = 2

ScaleCalls == {k \in 1 .. Len(calls) : calls[k].key \in ScaleKeys}

\* C9: without normalization no scale is set; otherwise exactly one is set
\* before the commit, forward for inverse = FALSE and backward for inverse
\* = TRUE, 1/sqrt(P) for by_root_n and 1/P for by_n, P the product of
\* checked_signal_sizes.
C9_ScaleSelection ==
    /\ Cardinality(ScaleCalls) <= 1
    /\ args.normalization = "none" => ScaleCalls = {}
    /\ \A k \in ScaleCalls :
          /\ args.normalization # "none"
          /\ calls[k].key = IF args.inverse THEN "DFTI_BACKWARD_SCALE"
                            ELSE "DFTI_FORWARD_SCALE"
          /\ calls[k].value.factor = IF args.normalization = "by_root_n" THEN "1/sqrt"
                                     ELSE "1/"
          /\ calls[k].value.of = SeqProduct(args.checked_signal_sizes)
          /\ \A j \in 1 .. k : calls[j].key # "DftiCommitDescriptor"
    /\ \A k \in 1 .. Len(calls) :
          (calls[k].key = "DftiCommitDescriptor" /\ args.normalization # "none") =>
             \E j \in ScaleCalls : j < k /\ calls[j].ok

\* an inverse transform normalized by root N over more than one element and
\* a batch of two has reached its commit
C9_Witness ==
    /\ args.normalization = "by_root_n"
    /\ args.inverse
    /\ self.sizes[0] = 2
    /\ SeqProduct(args.checked_signal_sizes) > 1
    /\ \E k \in 1 .. Len(calls) : calls[k].key = "DftiCommitDescriptor"

====
